---- MODULE Spec2Model ----
(***************************************************************************)
(* Model of the guarded SQL tool (src/src/sql_tool.py) and of the Database *)
(* access layer it delegates to (src/src/database.py).                     *)
(*                                                                         *)
(* Text is a sequence of one-character strings, so that strip(), upper()   *)
(* and startswith() are computed as Python computes them.  The MySQL       *)
(* driver is the environment: each driver call either returns or raises a  *)
(* pymysql Error, chosen by the action that models the calling method.     *)
(* The driver's rollback() and close() are taken to return normally.       *)
(***************************************************************************)
EXTENDS Integers, Sequences, FiniteSets, TLC

\* ------------------------------------------------------------------ bounds
\* leading whitespace characters before a query
MaxPad == 1

\* rows in a result set returned by the driver
MaxRows == 1

\* connections the tool may leave open before the model stops
MaxOpen == 1

\* characters in a script given to execute_script
MaxScriptLen == 3

\* ------------------------------------------------------------------- text
KW_SELECT ==
    <<"S", "E", "L", "E", "C", "T">>

KW_WITH ==
    <<"W", "I", "T", "H">>

Q_SELECT_1 ==
    <<"S", "E", "L", "E", "C", "T", " ", "1">>

Q_SeLeCt_1 ==
    <<"S", "e", "L", "e", "C", "t", " ", "1">>

Q_SELECT_DROP ==
    <<"S", "E", "L", "E", "C", "T", " ", "1", ";", " ", "D", "R", "O", "P", " ", "T", "A", "B", "L", "E", " ", "d", "e", "p", "a", "r", "t", "m", "e", "n", "t", "s", ";">>

Q_DELETE ==
    <<"D", "E", "L", "E", "T", "E", " ", "F", "R", "O", "M", " ", "d", "e", "p", "a", "r", "t", "m", "e", "n", "t", "s">>

Q_CTE ==
    <<"W", "I", "T", "H", " ", "c", " ", "A", "S", " ", "(", "S", "E", "L", "E", "C", "T", " ", "1", ")", " ", "S", "E", "L", "E", "C", "T", " ", "*", " ", "F", "R", "O", "M", " ", "c">>

Q_SELEC ==
    <<"S", "E", "L", "E", "C">>

Q_DROP_SELECT ==
    <<"D", "R", "O", "P", " ", "T", "A", "B", "L", "E", " ", "t", ";", " ", "S", "E", "L", "E", "C", "T", " ", "1">>

\* str.upper() on the letters a..z; every other character is left alone
UpperMap ==
    [a |-> "A", b |-> "B", c |-> "C", d |-> "D", e |-> "E", f |-> "F", g |-> "G",
     h |-> "H", i |-> "I", j |-> "J", k |-> "K", l |-> "L", m |-> "M", n |-> "N",
     o |-> "O", p |-> "P", q |-> "Q", r |-> "R", s |-> "S", t |-> "T", u |-> "U",
     v |-> "V", w |-> "W", x |-> "X", y |-> "Y", z |-> "Z"]

UpperChar(c) == IF c \in DOMAIN UpperMap THEN UpperMap[c] ELSE c

Upper(s) == [i \in 1..Len(s) |-> UpperChar(s[i])]

\* the characters str.strip() removes
IsSpace(c) == c \in {" ", "\t", "\n", "\r"}

RECURSIVE LStrip(_)
LStrip(s) ==
    IF Len(s) = 0 THEN s
    ELSE IF IsSpace(Head(s)) THEN LStrip(Tail(s)) ELSE s

RECURSIVE RStrip(_)
RStrip(s) ==
    IF Len(s) = 0 THEN s
    ELSE IF IsSpace(s[Len(s)]) THEN RStrip(SubSeq(s, 1, Len(s) - 1)) ELSE s

Strip(s) == RStrip(LStrip(s))

StartsWith(s, prefix) ==
    /\ Len(s) >= Len(prefix)
    /\ SubSeq(s, 1, Len(prefix)) = prefix

Contains(s, word) ==
    \E i \in 0..Len(s) :
        /\ i + Len(word) <= Len(s)
        /\ SubSeq(s, i + 1, i + Len(word)) = word

\* ----------------------------------------------------------------- inputs
PadChars == {" ", "\n"}

Pads == UNION {[1..n -> PadChars] : n \in 0..MaxPad}

Bodies ==
    {<<>>, Q_SELECT_1, Q_SeLeCt_1, Q_SELECT_DROP,
     Q_DELETE, Q_CTE, Q_SELEC, Q_DROP_SELECT}

TrailPads == {<<>>, <<"\n">>}

Queries == {p1 \o b \o p2 : p1 \in Pads, b \in Bodies, p2 \in TrailPads}

RowValues == {[id |-> 1], [id |-> 2]}

ResultSets == UNION {[1..n -> RowValues] : n \in 0..MaxRows}

\* str(e) of the pymysql Error; a driver error may carry no text at all
DriverMsgs == {<<>>, <<"(1064, 'You have an error in your SQL syntax')">>}

\* one driver call: what was called, with what, and whether it returned
Call(op, arg, ok) == [op |-> op, arg |-> arg, ok |-> ok]

\* the result of a method: the instance afterwards, the exception raised
\* ("none" when the method returned), its message, the value returned and
\* the driver calls the method made, in order
Returns(self, value, calls) ==
    [self |-> self, raised |-> "none", msg |-> <<>>, value |-> value, calls |-> calls]

Raises(self, kind, msg, calls) ==
    [self |-> self, raised |-> kind, msg |-> msg, value |-> <<>>, calls |-> calls]

\* --------------------------------------------------------------- Database
Database == [conn |-> "None"]

connect(self, env) ==
    IF env.connectOk
    THEN Returns([self EXCEPT !.conn = "Conn"], TRUE, <<Call("connect", <<>>, TRUE)>>)
    ELSE Raises(self, "ConnectionError",
                <<"Failed to connect to database: ">> \o env.msg,
                <<Call("connect", <<>>, FALSE)>>)

disconnect(self) ==
    IF self.conn # "None"
    THEN Returns([self EXCEPT !.conn = "None"], <<>>, <<Call("close", <<>>, TRUE)>>)
    ELSE Returns(self, <<>>, <<>>)

NeedsConnect_always(self) == TRUE

NeedsConnect(self) == self.conn = "None"

\* the lazy connect every execute_* method starts with
LazyConnect(self, env) ==
    IF NeedsConnect(self) THEN connect(self, env) ELSE Returns(self, <<>>, <<>>)

execute_query(self, query, env) ==
    LET c == LazyConnect(self, env) IN
    IF c.raised # "none" THEN c
    ELSE IF env.failAt = 1
    THEN Raises(c.self, "RuntimeError",
                <<"Query execution failed: ">> \o env.msg,
                c.calls \o <<Call("execute", query, FALSE)>>)
    ELSE Returns(c.self, env.rows,
                 c.calls \o <<Call("execute", query, TRUE),
                              Call("fetchall", env.rows, TRUE)>>)

OnDriverError_noRollback(self, calls) == calls

\* the `except Error` handler of the mutating methods, up to its raise
OnDriverError(self, calls) ==
    IF self.conn # "None" THEN calls \o <<Call("rollback", <<>>, TRUE)>> ELSE calls

execute_non_query(self, query, env) ==
    LET c == LazyConnect(self, env) IN
    IF c.raised # "none" THEN c
    ELSE IF env.failAt = 1
    THEN Raises(c.self, "RuntimeError",
                <<"Query execution failed: ">> \o env.msg,
                OnDriverError(c.self, c.calls \o <<Call("execute", query, FALSE)>>))
    ELSE IF env.failAt = 2
    THEN Raises(c.self, "RuntimeError",
                <<"Query execution failed: ">> \o env.msg,
                OnDriverError(c.self, c.calls \o <<Call("execute", query, TRUE),
                                                    Call("rowcount", env.rowcount, TRUE),
                                                    Call("commit", <<>>, FALSE)>>))
    ELSE Returns(c.self, env.rowcount,
                 c.calls \o <<Call("execute", query, TRUE),
                              Call("rowcount", env.rowcount, TRUE),
                              Call("commit", <<>>, TRUE)>>)

\* str.split(";"): the pieces between separators, empty ones included
RECURSIVE SplitAt(_, _)
SplitAt(s, piece) ==
    IF Len(s) = 0 THEN <<piece>>
    ELSE IF Head(s) = ";" THEN <<piece>> \o SplitAt(Tail(s), <<>>)
    ELSE SplitAt(Tail(s), Append(piece, Head(s)))

Split(s) == SplitAt(s, <<>>)

NonBlank(piece) == Len(Strip(piece)) > 0

\* [s.strip() for s in script.split(";") if s.strip()]
SplitStatements(script) ==
    LET kept == SelectSeq(Split(script), NonBlank)
    IN  [i \in 1..Len(kept) |-> Strip(kept[i])]

RECURSIVE RunStatements_continue(_, _, _)
RunStatements_continue(statements, i, failAt) ==
    IF i > Len(statements) THEN <<>>
    ELSE <<Call("execute", statements[i], i # failAt)>>
         \o RunStatements_continue(statements, i + 1, failAt)

\* the driver calls of `for statement in statements`, from the i-th
\* statement on; the loop ends at the first execute that raises
RECURSIVE RunStatements(_, _, _)
RunStatements(statements, i, failAt) ==
    IF i > Len(statements) THEN <<>>
    ELSE IF i = failAt THEN <<Call("execute", statements[i], FALSE)>>
    ELSE <<Call("execute", statements[i], TRUE)>>
         \o RunStatements(statements, i + 1, failAt)

execute_script(self, script, env) ==
    LET c == LazyConnect(self, env) IN
    IF c.raised # "none" THEN c
    ELSE LET statements == SplitStatements(script)
             ran == RunStatements(statements, 1, env.failAt)
             loopFailed == \E k \in 1..Len(ran) : ~ran[k].ok
         IN  IF loopFailed
             THEN Raises(c.self, "RuntimeError",
                         <<"Script execution failed: ">> \o env.msg,
                         OnDriverError(c.self, c.calls \o ran))
             ELSE IF env.failAt = Len(statements) + 1
             THEN Raises(c.self, "RuntimeError",
                         <<"Script execution failed: ">> \o env.msg,
                         OnDriverError(c.self, c.calls \o ran
                                                \o <<Call("commit", <<>>, FALSE)>>))
             ELSE Returns(c.self, <<>>, c.calls \o ran \o <<Call("commit", <<>>, TRUE)>>)

\* ------------------------------------------------------- execute_sql_function
PassesGuard_contains(sql_query) ==
    Contains(Upper(Strip(sql_query)), KW_SELECT)

PassesGuard(sql_query) ==
    StartsWith(Upper(Strip(sql_query)), KW_SELECT)

RejectionOutcome(sql_query) ==
    [error |-> <<"Only SELECT queries are allowed. Security check failed.">>,
     sql_query |-> sql_query]

SuccessOutcome_emptyIsError(sql_query, results) ==
    IF Len(results) = 0
    THEN [success |-> FALSE, error |-> <<"No rows returned">>, sql_query |-> sql_query]
    ELSE [success |-> TRUE, results |-> results, row_count |-> Len(results),
          sql_query |-> sql_query]

SuccessOutcome(sql_query, results) ==
    [success |-> TRUE, results |-> results, row_count |-> Len(results),
     sql_query |-> sql_query]

ErrorOutcome(sql_query, msg) ==
    [success |-> FALSE, error |-> msg, sql_query |-> sql_query]

ForwardedQuery_upper(sql_query) == Upper(Strip(sql_query))

\* the argument of db.execute_query(...)
ForwardedQuery(sql_query) == sql_query

Catches_runtimeOnly(kind) == kind = "RuntimeError"

\* `except Exception`: ConnectionError and RuntimeError are both Exceptions
Catches(kind) == kind \in {"ConnectionError", "RuntimeError"}

\* outcome: the dictionary returned (<<>> when the call raised instead);
\* created: Database instances constructed; forwarded: the arguments
\* execute_query was called with; left: the instance the call leaves behind
execute_sql_function(sql_query, env) ==
    IF ~PassesGuard(sql_query)
    THEN [outcome |-> RejectionOutcome(sql_query), raised |-> "none",
          created |-> 0, forwarded |-> <<>>, calls |-> <<>>, left |-> Database]
    ELSE LET db == Database
             r == execute_query(db, ForwardedQuery(sql_query), env)
             rest == [created |-> 1, forwarded |-> <<ForwardedQuery(sql_query)>>,
                      calls |-> r.calls, left |-> r.self]
         IN  IF r.raised = "none"
             THEN [outcome |-> SuccessOutcome(sql_query, r.value), raised |-> "none"] @@ rest
             ELSE IF Catches(r.raised)
             THEN [outcome |-> ErrorOutcome(sql_query, r.msg), raised |-> "none"] @@ rest
             ELSE [outcome |-> <<>>, raised |-> r.raised] @@ rest

\* what the driver does during one call: the handshake fails, or the
\* failAt-th statement-level driver call raises (0: none does), or the
\* statement runs and fetchall() returns rows
Env(connectOk, failAt, rows, rowcount, msg) ==
    [connectOk |-> connectOk, failAt |-> failAt, rows |-> rows,
     rowcount |-> rowcount, msg |-> msg]

ConnectEnvs ==
    {Env(TRUE, 0, <<>>, 0, <<>>)} \cup {Env(FALSE, 0, <<>>, 0, m) : m \in DriverMsgs}

QueryEnvs ==
    {Env(FALSE, 0, <<>>, 0, m) : m \in DriverMsgs}
    \cup {Env(TRUE, 1, <<>>, 0, m) : m \in DriverMsgs}
    \cup {Env(TRUE, 0, rows, 0, <<>>) : rows \in ResultSets}

NonQueryEnvs ==
    {Env(FALSE, 0, <<>>, 0, m) : m \in DriverMsgs}
    \cup {Env(TRUE, f, <<>>, 0, m) : f \in 1..2, m \in DriverMsgs}
    \cup {Env(TRUE, 0, <<>>, n, <<>>) : n \in 0..MaxRows}

ScriptEnvs(script) ==
    {Env(FALSE, 0, <<>>, 0, <<>>)}
    \cup {Env(TRUE, f, <<>>, 0, <<>>) : f \in 0..(Len(SplitStatements(script)) + 1)}

\* ------------------------------------------------------------------ state
VARIABLES
    pc,          \* tool: "idle" before the first call, then "returned" or "raised"
    sql_query,   \* tool: the argument of the last call
    outcome,     \* tool: the dictionary the last call returned
    toolRaised,  \* tool: the exception the last call let through, or "none"
    created,     \* tool: Database instances the last call constructed
    forwarded,   \* tool: the arguments the last call gave to execute_query
    toolCalls,   \* tool: the driver calls of the last call
    openConns,   \* connections opened by tool calls and not closed since
    db,          \* a Database instance held by a caller: its conn field
    linkUp,      \* whether the server side of db.conn is still there
    op,          \* the last method called on db and its argument
    connBefore,  \* db.conn when that method was called
    linkBefore,  \* linkUp when that method was called
    calls,       \* the driver calls that method made
    raised,      \* the exception it raised, or "none"
    msg,         \* str() of that exception
    value        \* the value it returned

toolVars == <<pc, sql_query, outcome, toolRaised, created, forwarded, toolCalls, openConns>>

dbVars == <<db, linkUp, op, connBefore, linkBefore, calls, raised, msg, value>>

vars == <<toolVars, dbVars>>

DbQueries == {Q_SELECT_1, Q_SELECT_DROP, Q_DELETE, Q_CTE}

ScriptChars == {"a", "b", ";", " "}

Scripts == UNION {[1..n -> ScriptChars] : n \in 0..MaxScriptLen}

Init ==
    /\ pc = "idle"
    /\ sql_query = <<>>
    /\ outcome = <<>>
    /\ toolRaised = "none"
    /\ created = 0
    /\ forwarded = <<>>
    /\ toolCalls = <<>>
    /\ openConns = 0
    /\ db = Database
    /\ linkUp = FALSE
    /\ op = [name |-> "__init__", arg |-> <<>>]
    /\ connBefore = "None"
    /\ linkBefore = FALSE
    /\ calls = <<>>
    /\ raised = "none"
    /\ msg = <<>>
    /\ value = <<>>

\* one call of the tool by the agent runtime
ExecuteSqlFunction ==
    /\ openConns < MaxOpen
    /\ \E q \in Queries, env \in QueryEnvs :
          \E r \in {execute_sql_function(q, env)} :
          /\ pc' = IF r.raised = "none" THEN "returned" ELSE "raised"
          /\ sql_query' = q
          /\ outcome' = r.outcome
          /\ toolRaised' = r.raised
          /\ created' = r.created
          /\ forwarded' = r.forwarded
          /\ toolCalls' = r.calls
          /\ openConns' = openConns + (IF r.left.conn = "Conn" THEN 1 ELSE 0)
    /\ UNCHANGED dbVars

Connected(cs) == \E k \in 1..Len(cs) : cs[k].op = "connect" /\ cs[k].ok

\* a method of db was called and came back with r
MethodCall(name, arg, r) ==
    /\ op' = [name |-> name, arg |-> arg]
    /\ connBefore' = db.conn
    /\ linkBefore' = linkUp
    /\ db' = r.self
    /\ calls' = r.calls
    /\ raised' = r.raised
    /\ msg' = r.msg
    /\ value' = r.value
    /\ linkUp' = IF Connected(r.calls) THEN TRUE
                 ELSE IF r.self.conn = "None" THEN FALSE
                 ELSE linkUp
    /\ UNCHANGED toolVars

Connect ==
    \E env \in ConnectEnvs :
        \E r \in {connect(db, env)} : MethodCall("connect", <<>>, r)

Disconnect ==
    \E r \in {disconnect(db)} : MethodCall("disconnect", <<>>, r)

\* on a connection whose server side is gone the driver's execute raises
ExecuteQuery ==
    \E q \in DbQueries, env \in QueryEnvs :
        /\ (~NeedsConnect(db) /\ ~linkUp) => env.connectOk /\ env.failAt = 1
        /\ \E r \in {execute_query(db, q, env)} : MethodCall("execute_query", q, r)

\* the server or the network drops the connection; disconnect() is not called
DropConnection ==
    /\ db.conn = "Conn"
    /\ linkUp
    /\ linkUp' = FALSE
    /\ UNCHANGED <<db, op, connBefore, linkBefore, calls, raised, msg, value>>
    /\ UNCHANGED toolVars

ExecuteNonQuery ==
    \E q \in DbQueries, env \in NonQueryEnvs :
        \E r \in {execute_non_query(db, q, env)} : MethodCall("execute_non_query", q, r)

ExecuteScript ==
    \E script \in Scripts :
        \E env \in ScriptEnvs(script) :
            \E r \in {execute_script(db, script, env)} : MethodCall("execute_script", script, r)

\* the agent-facing tool
Next == ExecuteSqlFunction

Spec == Init /\ [][Next]_vars

\* the connection life cycle of one Database instance
NextConn == Connect \/ Disconnect \/ ExecuteQuery \/ DropConnection

SpecConn == Init /\ [][NextConn]_vars

\* the mutating methods of one Database instance, on a link that stays up
NextTxn == Connect \/ Disconnect \/ ExecuteNonQuery \/ ExecuteScript

SpecTxn == Init /\ [][NextTxn]_vars

\* ------------------------------------------------------- claims: the tool
LowerOf ==
    [S |-> "s", E |-> "e", L |-> "l", C |-> "c", T |-> "t", W |-> "w", I |-> "i", H |-> "h"]

FoldEq(c, K) == c = K \/ (K \in DOMAIN LowerOf /\ c = LowerOf[K])

\* after leading whitespace the text begins, in any letter case, with kw
BeginsFolded(q, kw) ==
    \E i \in 0..Len(q) :
        /\ \A j \in 1..i : IsSpace(q[j])
        /\ i + Len(kw) <= Len(q)
        /\ \A k \in 1..Len(kw) : FoldEq(q[i + k], kw[k])

SomeCallFailed(cs) == \E k \in 1..Len(cs) : ~cs[k].ok

ExecutedWithoutError(cs) ==
    /\ \E k \in 1..Len(cs) : cs[k].op = "execute"
    /\ \A k \in 1..Len(cs) : cs[k].ok

IsFetch(c) == c.op = "fetchall"

\* C1: a call whose trimmed, case-folded text does not start with SELECT
\* returns an error outcome and touches no database: no Database instance
\* is constructed, nothing is forwarded and no driver call is made.
C1_RejectedWithoutDatabaseAccess ==
    (pc # "idle" /\ ~BeginsFolded(sql_query, KW_SELECT)) =>
        /\ pc = "returned"
        /\ "error" \in DOMAIN outcome
        /\ Len(outcome.error) > 0
        /\ "results" \notin DOMAIN outcome
        /\ created = 0
        /\ forwarded = <<>>
        /\ toolCalls = <<>>

C1_Witness ==
    /\ pc = "returned"
    /\ sql_query = <<" ">> \o Q_DELETE
    /\ "error" \in DOMAIN outcome
    /\ created = 0

\* C2: the tool never lets an exception through, and a call during which
\* the database layer failed (connect or execute raised) returns
\* success = false with a non-empty error message.
C2_NeverRaises ==
    /\ pc # "raised"
    /\ toolRaised = "none"
    /\ (pc = "returned" /\ SomeCallFailed(toolCalls)) =>
          /\ "success" \in DOMAIN outcome
          /\ outcome.success = FALSE
          /\ "error" \in DOMAIN outcome
          /\ Len(outcome.error) > 0
          /\ "results" \notin DOMAIN outcome

C2_Witness ==
    /\ pc = "returned"
    /\ toolCalls = <<Call("connect", <<>>, FALSE)>>
    /\ "success" \in DOMAIN outcome
    /\ outcome.success = FALSE
    /\ Len(outcome.error) = 1

SuccessShape(o) ==
    /\ DOMAIN o = {"success", "results", "row_count", "sql_query"}
    /\ o.success = TRUE

FailureShape(o) ==
    /\ DOMAIN o = {"success", "error", "sql_query"}
    /\ o.success = FALSE

\* C3: every outcome returned, on every path, carries the success tag and
\* has one of the two shapes {success=true, rows, row_count, query} and
\* {success=false, error, query}.
C3_TaggedOutcome ==
    pc = "returned" =>
        /\ "success" \in DOMAIN outcome
        /\ SuccessShape(outcome) \/ FailureShape(outcome)

IsCte(q) ==
    /\ BeginsFolded(q, KW_WITH)
    /\ Contains(Upper(q), KW_SELECT)

\* C4: a query written as a CTE (WITH ... SELECT ...) passes the guard and
\* is forwarded to Database.execute_query.
C4_CteAccepted ==
    (pc # "idle" /\ IsCte(sql_query)) =>
        /\ created = 1
        /\ forwarded = <<sql_query>>

\* C5: when the database executes an accepted query without error the
\* outcome is a success whose rows are the fetched rows and whose row_count
\* is their number; an empty result set gives success, no rows, count 0.
C5_RowCountMatchesRows ==
    (pc = "returned" /\ ExecutedWithoutError(toolCalls)) =>
        LET fetched == SelectSeq(toolCalls, IsFetch)[1].arg IN
        /\ SuccessShape(outcome)
        /\ outcome.results = fetched
        /\ outcome.row_count = Len(outcome.results)
        /\ Len(fetched) = 0 => outcome.row_count = 0 /\ Len(outcome.results) = 0

C5_Witness ==
    /\ pc = "returned"
    /\ ExecutedWithoutError(toolCalls)
    /\ "row_count" \in DOMAIN outcome
    /\ outcome.row_count = 0
    /\ outcome.success = TRUE

\* C6: the guard looks at the prefix only: any text that starts with SELECT
\* after trimming and case folding is accepted whatever follows, and the
\* original text is what execute_query and the driver are given.
C6_PrefixCheckOnly ==
    (pc # "idle" /\ BeginsFolded(sql_query, KW_SELECT)) =>
        /\ created = 1
        /\ forwarded = <<sql_query>>
        /\ \A k \in 1..Len(toolCalls) :
              toolCalls[k].op = "execute" => toolCalls[k].arg = sql_query

C6_Witness ==
    /\ pc = "returned"
    /\ sql_query = Q_SELECT_DROP
    /\ forwarded = <<Q_SELECT_DROP>>
    /\ toolCalls = <<Call("connect", <<>>, TRUE),
                     Call("execute", Q_SELECT_DROP, TRUE),
                     Call("fetchall", <<>>, TRUE)>>

\* C10: after any sequence of tool calls no connection opened by the tool
\* is still open.
C10_NoConnectionLeftOpen ==
    pc # "idle" => openConns = 0

\* -------------------------------------------------- claims: the Database
IsExecute(c) == c.op = "execute"

IsCommit(c) == c.op = "commit"

IsOkCommit(c) == c.op = "commit" /\ c.ok

IsRollback(c) == c.op = "rollback"

Count(cs, Test(_)) == Len(SelectSeq(cs, Test))

\* the text between separators, cut by position
Cuts(s) == {0, Len(s) + 1} \cup {i \in 1..Len(s) : s[i] = ";"}

Inked(s, a) ==
    LET b == CHOOSE x \in Cuts(s) : x > a /\ \A y \in Cuts(s) : y > a => x <= y
    IN  {i \in (a + 1)..(b - 1) : ~IsSpace(s[i])}

Starts(s) == {a \in Cuts(s) : a <= Len(s) /\ Inked(s, a) # {}}

Least(S) == CHOOSE x \in S : \A y \in S : x <= y

Most(S) == CHOOSE x \in S : \A y \in S : y <= x

\* the non-blank fragments of a script, trimmed, in their order
Fragments(s) ==
    [n \in 1..Cardinality(Starts(s)) |->
        LET a == CHOOSE x \in Starts(s) : Cardinality({y \in Starts(s) : y < x}) = n - 1
        IN  SubSeq(s, Least(Inked(s, a)), Most(Inked(s, a)))]

C9_ReconnectAfterDrop ==
    (op.name = "execute_query" /\ connBefore = "Conn" /\ ~linkBefore) =>
        /\ calls # <<>>
        /\ calls[1].op = "connect"

\* C9: the instance is Unconnected or Connected; it becomes Connected only
\* by a successful connect and Unconnected only by disconnect(); a query on
\* an Unconnected instance connects first; a query on a connection that was
\* dropped without disconnect() attempts no connect and fails.
C9_ConnectionLifecycle ==
    /\ db.conn \in {"None", "Conn"}
    /\ (connBefore = "None" /\ db.conn = "Conn") => Connected(calls)
    /\ (connBefore = "Conn" /\ db.conn = "None") => op.name = "disconnect"
    /\ (op.name = "execute_query" /\ connBefore = "None") =>
          /\ calls # <<>>
          /\ calls[1].op = "connect"
    /\ (op.name = "execute_query" /\ connBefore = "Conn" /\ ~linkBefore) =>
          /\ \A k \in 1..Len(calls) : calls[k].op # "connect"
          /\ raised = "RuntimeError"
          /\ db.conn = "Conn"

C9_Witness ==
    /\ op.name = "execute_query"
    /\ connBefore = "Conn"
    /\ ~linkBefore
    /\ raised = "RuntimeError"
    /\ calls = <<Call("execute", Q_SELECT_1, FALSE)>>

====
